---- MODULE Spec2Model ----
(***************************************************************************)
(* Model of two edalize backends:                                          *)
(*   - Vcs.setup (edalize/tools/vcs.py): classification of the EDAM file   *)
(*     list, grouping into vlogan/vhdlan commands and population of the    *)
(*     EdaCommands build graph;                                            *)
(*   - Verilator (edalize/verilator.py): configure_main, build_main,       *)
(*     run_pre and run_main.                                               *)
(*                                                                         *)
(* Representation.  A Python string that the code builds by concatenation  *)
(* is a sequence of string pieces: the file name "f1" is <<"f1">>,         *)
(* lib + "/AN.DB" is <<lib, "/AN.DB">>, f"{lib}.{i}.f" is                    *)
(* <<lib, ".", DecStr[i], ".f">>.  An insertion-ordered dict is a sequence of    *)
(* <<key, value>> pairs.                                                   *)
(***************************************************************************)
EXTENDS Integers, Sequences, FiniteSets, TLC

\* Longest EDAM file list explored.
MaxFiles == 3

\* Longest sequence of Verilator stage calls explored.
MaxCalls == 3

VARIABLES
    \* ---- Vcs (self.*, and the locals of setup that outlive a loop) ----
    files,          \* self.files: the EDAM file list
    name,           \* self.name: the design name
    pc,             \* position inside Vcs.setup
    err,            \* the exception setup ended with, "" if none
    incdirs,        \* local incdirs
    include_files,  \* local include_files
    unused_files,   \* local unused_files
    user_files,     \* local user_files
    libs,           \* local libs: ordered dict lib -> [(cmd, fname, defines)]
    has_sv,         \* local has_sv
    commands,       \* self.commands: the EdaCommands build graph
    default_target, \* self.commands.default_target
    f_files,        \* self.f_files: ordered dict option file -> options
    edam_files,     \* self.edam["files"]
    \* ---- Verilator ----
    tool_options,   \* self.tool_options: an ordered dict
    vtoplevel,      \* self.toplevel, "" when the EDAM names none
    hooks,          \* self.hooks: the keys present
    vpc,            \* configure_main: "new", "configured" or "failed"
    verr,           \* the exception the last call ended with, "" if none
    written,        \* files in work_root: ordered dict name -> lines
    args,           \* self.args
    has_args,       \* whether the attribute self.args exists
    tools_run,      \* _run_tool calls so far: sequence of <<tool, argv>>
    scripts_run,    \* _run_scripts calls so far: sequence of hook names
    calls           \* the stage calls made so far

vcsvars == <<files, name, pc, err, incdirs, include_files, unused_files,
             user_files, libs, has_sv, commands, default_target, f_files,
             edam_files>>
vervars == <<tool_options, vtoplevel, hooks, vpc, verr, written, args,
             has_args, tools_run, scripts_run, calls>>
vars == <<vcsvars, vervars>>

(***************************************************************************)
(* Helpers on sequences and ordered dicts                                  *)
(***************************************************************************)
Range(s) == {s[i] : i \in 1..Len(s)}

\* list.remove(x): drops the first element equal to x.
RECURSIVE Remove(_, _)
Remove(s, x) ==
    IF s = <<>> THEN <<>>
    ELSE IF Head(s) = x THEN Tail(s)
    ELSE <<Head(s)>> \o Remove(Tail(s), x)

\* Flattening of a sequence of sequences.
RECURSIVE Concat(_)
Concat(ss) == IF ss = <<>> THEN <<>> ELSE Head(ss) \o Concat(Tail(ss))

\* Keys of an ordered dict, in insertion order.
Keys(d) == [i \in 1..Len(d) |-> d[i][1]]

HasKey(d, k) == \E i \in 1..Len(d) : d[i][1] = k

Get(d, k) == d[CHOOSE i \in 1..Len(d) : d[i][1] = k][2]

\* d[k] = v: overwrites in place, or appends a new key.
Put(d, k, v) ==
    IF HasKey(d, k)
    THEN [i \in 1..Len(d) |-> IF d[i][1] = k THEN <<k, v>> ELSE d[i]]
    ELSE Append(d, <<k, v>>)

\* dict.update(e)
RECURSIVE Update(_, _)
Update(d, e) ==
    IF e = <<>> THEN d ELSE Update(Put(d, Head(e)[1], Head(e)[2]), Tail(e))

\* A one-piece string.
T(s) == <<s>>

\* str(i) for the small positive integers the model needs.
DecStr == <<"1", "2", "3", "4", "5", "6", "7", "8">>

(***************************************************************************)
(* Inputs of Vcs                                                           *)
(***************************************************************************)
\* self.vlogdefine, the global defines.
vlogdefine == << <<"X", 0>>, <<"W", 1>> >>
\* self.toplevel of the Vcs design.
toplevel == "tb"
\* self.tool_options of Vcs.
vcs_tool_options ==
    [bits32 |-> FALSE,
     vlogan_options |-> <<T("+v2k")>>,
     vhdlan_options |-> <<T("-vhdl08")>>,
     vcs_options |-> <<T("-debug")>>,
     run_options |-> <<T("-ucli")>>]
\* Design names, two of which meet an output name setup declares itself.
DesignNames == {T("design"), T("run"), <<"work", "/AN.DB">>}

FileBase == <<"f1", "f2", "f3", "f4", "f5">>

IsVlogFamily(file_type) ==
    file_type = "verilogSource" \/ file_type = "systemVerilogSource"

IsSim(f) == "simulation" \in f.tags

\* One file's attributes.  A field that setup never reads for a file of that
\* kind keeps its default value.
Attr(ft, tag, lib, def, inc) ==
    [file_type |-> ft, tags |-> {tag}, logical_name |-> lib, define |-> def,
     is_include_file |-> inc]

XDefine == << <<"X", 1>> >>

FileAttrs ==
    { Attr("verilogSource", "simulation", "work", <<>>, FALSE),
      Attr("verilogSource", "simulation", "work", XDefine, FALSE),
      Attr("verilogSource", "simulation", "ip", <<>>, FALSE),
      Attr("verilogSource", "simulation", "ip", XDefine, FALSE),
      Attr("verilogSource", "synthesis", "work", <<>>, FALSE),
      Attr("verilogSource", "simulation", "work", <<>>, TRUE),
      Attr("systemVerilogSource", "simulation", "work", <<>>, FALSE),
      Attr("systemVerilogSource", "simulation", "work", XDefine, FALSE),
      Attr("systemVerilogSource", "simulation", "ip", <<>>, FALSE),
      Attr("systemVerilogSource", "simulation", "work", <<>>, TRUE),
      Attr("systemVerilogSource", "synthesis", "work", <<>>, FALSE),
      Attr("vhdlSource", "simulation", "work", <<>>, FALSE),
      Attr("vhdlSource", "simulation", "ip", <<>>, FALSE),
      Attr("vhdlSource", "synthesis", "work", <<>>, FALSE),
      Attr("user", "simulation", "work", <<>>, FALSE),
      Attr("user", "synthesis", "work", <<>>, FALSE),
      Attr("", "simulation", "work", <<>>, FALSE),
      Attr("", "synthesis", "work", <<>>, FALSE) }

MkFile(i, a) ==
    [name |-> T(FileBase[i]), file_type |-> a.file_type, tags |-> a.tags,
     logical_name |-> a.logical_name, define |-> a.define,
     is_include_file |-> a.is_include_file]

\* The list of the files with attributes as: the i-th is named FileBase[i].
FileList(as) == [i \in 1..Len(as) |-> MkFile(i, as[i])]

(***************************************************************************)
(* Collaborators of Vcs.setup that live outside vcs.py                     *)
(***************************************************************************)
\* Edatool._param_value_str for the integer values the model uses: the value
\* rendered literally.
ParamValueStr(v) == IF v = 0 THEN "0" ELSE DecStr[v]

\* Edatool._add_include_dir(f, incdirs): true for an include file, whose
\* directory it registers once.  Every model file lives in ".".
IsIncludeFile(f) == f.is_include_file

AddIncludeDir(f, dirs) ==
    IF T(".") \in Range(dirs) THEN dirs ELSE Append(dirs, T("."))

\* Whether some Target of graph g already declares output t.
Declared(g, t) == \E i \in 1..Len(g) : t \in Range(g[i].targets)

\* EdaCommands.add(commands, targets, depends): appends one Target; refused
\* (ConstructionError) when there is no output, no command, or an output that
\* an earlier Target declares.
AddOk(g, cmds, targets) ==
    /\ targets # <<>>
    /\ cmds # <<>>
    /\ \A t \in Range(targets) : ~Declared(g, t)

Add(g, cmds, targets, depends) ==
    Append(g, [commands |-> cmds, targets |-> targets, depends |-> depends])

(***************************************************************************)
(* Vcs.setup, first loop: include directories and include files            *)
(***************************************************************************)
RECURSIVE IncludeLoop(_, _, _)
IncludeLoop(fs, i, st) ==
    IF i > Len(fs) THEN st
    ELSE LET f == fs[i] IN
         IF ~IsSim(f) THEN IncludeLoop(fs, i + 1, st)
         ELSE IF IsVlogFamily(f.file_type) /\ IsIncludeFile(f)
         THEN IncludeLoop(fs, i + 1,
                  [incdirs |-> AddIncludeDir(f, st.incdirs),
                   include_files |-> Append(st.include_files, f.name),
                   unused_files |-> Remove(st.unused_files, f)])
         ELSE IncludeLoop(fs, i + 1, st)

(***************************************************************************)
(* Vcs.setup, second loop: one command kind per file, grouping per library *)
(***************************************************************************)
\* " ".join("+define+{}={}".format(k, v) for k, v in d.items())
RECURSIVE JoinDefines(_)
JoinDefines(d) ==
    IF d = <<>> THEN <<>>
    ELSE <<"+define+", Head(d)[1], "=", ParamValueStr(Head(d)[2])>>
         \o (IF Tail(d) = <<>> THEN <<>> ELSE <<" ">> \o JoinDefines(Tail(d)))

\* The defines string of a Verilog-family file: global defines updated by
\* the file's own.
VlogDefines(f) == JoinDefines(Update(vlogdefine, f.define))

\* The command kind of a file before the tag test; "" stands for None.
CmdOfType(file_type) ==
    IF IsVlogFamily(file_type) THEN "vlogan"
    ELSE IF file_type = "vhdlSource" THEN "vhdlan"
    ELSE ""

\* Faulty variant of CmdOf: the tag test is left out.
CmdOfIgnoringTags(f) == CmdOfType(f.file_type)

\* The command kind after the tag test.
CmdOf(f) == IF ~IsSim(f) THEN "" ELSE CmdOfType(f.file_type)

\* The local variable "defines" after the type branch of one iteration: a
\* Verilog-family file binds it, every other file leaves it as it was.
DefinesAfter(f, st) ==
    IF IsVlogFamily(f.file_type)
    THEN [bound |-> TRUE, val |-> VlogDefines(f)]
    ELSE st.defines

\* Faulty variant of Consume: the grouped file stays in the pool.
ConsumeNothing(pool, f) == pool

\* unused_files.remove(f) for a file that went into a command group.
Consume(pool, f) == Remove(pool, f)

\* One iteration of the loop over unused_files.copy().  The dict "commands"
\* that the loop also fills is rebound before it is ever read and is left out.
GroupStep(f, st) ==
    LET lib == f.logical_name
        sv  == st.has_sv \/ f.file_type = "systemVerilogSource"
        dfs == DefinesAfter(f, st)
        uf  == IF CmdOfType(f.file_type) = "" /\ f.file_type = "user"
               THEN Append(st.user_files, f.name) ELSE st.user_files
        cmd == CmdOf(f)
        st1 == [st EXCEPT !.has_sv = sv, !.defines = dfs, !.user_files = uf]
    IN  IF cmd = "" THEN st1
        ELSE IF ~dfs.bound
        THEN [st1 EXCEPT !.err = "UnboundLocalError"]
        ELSE LET entry == <<cmd, f.name, dfs.val>>
                 old   == IF HasKey(st.libs, lib) THEN Get(st.libs, lib) ELSE <<>>
             IN  [st1 EXCEPT !.libs = Put(st.libs, lib, Append(old, entry)),
                             !.unused_files = Consume(st.unused_files, f)]

RECURSIVE GroupLoop(_, _, _)
GroupLoop(fs, i, st) ==
    IF i > Len(fs) \/ st.err # "" THEN st
    ELSE GroupLoop(fs, i + 1, GroupStep(fs[i], st))

(***************************************************************************)
(* Vcs.setup, third loop: one Target per library                           *)
(***************************************************************************)
full64 == IF vcs_tool_options.bits32 THEN <<>> ELSE <<T("-full64")>>

\* The dict cmds of one library: (cmd, defines) -> file names, keys in
\* order of first occurrence.
RECURSIVE Buckets(_, _)
Buckets(entries, cmds) ==
    IF entries = <<>> THEN cmds
    ELSE LET e   == Head(entries)
             key == <<e[1], e[3]>>
             old == IF HasKey(cmds, key) THEN Get(cmds, key) ELSE <<>>
         IN  Buckets(Tail(entries), Put(cmds, key, Append(old, e[2])))

\* lib + "/AN.DB"
Marker(lib) == <<lib, "/AN.DB">>

\* Faulty variant of FFile: the counter is incremented before it is used.
FFileIncrementedFirst(lib, i) == <<lib, ".", DecStr[i + 1], ".f">>

\* f"{lib}.{i}.f"
FFile(lib, i) == <<lib, ".", DecStr[i], ".f">>

\* Faulty variant of Options: -sverilog only for a bucket without include
\* directories.
OptionsSvWithoutIncdirs(cmd, defines, sv, dirs) ==
    IF cmd = "vlogan"
    THEN (IF sv /\ dirs = <<>> THEN <<T("-sverilog")>> ELSE <<>>)
         \o vcs_tool_options.vlogan_options
         \o <<defines>>
         \o [j \in 1..Len(dirs) |-> <<"+incdir+">> \o dirs[j]]
    ELSE IF cmd = "vhdlan" THEN vcs_tool_options.vhdlan_options
    ELSE <<>>

\* The options of one bucket's option file.
Options(cmd, defines, sv, dirs) ==
    IF cmd = "vlogan"
    THEN (IF sv THEN <<T("-sverilog")>> ELSE <<>>)
         \o vcs_tool_options.vlogan_options
         \o <<defines>>
         \o [j \in 1..Len(dirs) |-> <<"+incdir+">> \o dirs[j]]
    ELSE IF cmd = "vhdlan" THEN vcs_tool_options.vhdlan_options
    ELSE <<>>

\* [cmd] + full64 + ["-f", f_file, "-work", lib] + fnames
AnalysisCommand(cmd, lib, i, fnames) ==
    <<T(cmd)>> \o full64 \o <<T("-f"), FFile(lib, i), T("-work"), T(lib)>>
    \o fnames

\* Faulty variant of HasVlog: any analysed file counts.
HasVlogForAnyKind(entries) == entries # <<>>

\* Whether a library takes the include files as dependencies.
HasVlog(entries) == \E j \in 1..Len(entries) : entries[j][1] = "vlogan"

\* The body of the loop for one library: its commands, its option files and
\* its dependencies.
LibTarget(lib, entries, sv, dirs, incs) ==
    LET cmds     == Buckets(entries, <<>>)
        depfiles == [j \in 1..Len(entries) |-> entries[j][2]]
        ffs      == [i \in 1..Len(cmds) |->
                        <<FFile(lib, i),
                          Options(cmds[i][1][1], cmds[i][1][2], sv, dirs)>>]
        argvs    == <<<<T("mkdir"), T("-p"), T(lib)>>>>
                    \o [i \in 1..Len(cmds) |->
                          AnalysisCommand(cmds[i][1][1], lib, i, cmds[i][2])]
    IN  [commands |-> argvs,
         targets  |-> <<Marker(lib)>>,
         depends  |-> depfiles
                      \o (IF HasVlog(entries) THEN incs ELSE <<>>)
                      \o Keys(ffs),
         f_files  |-> ffs]

RECURSIVE LibLoop(_, _, _, _, _, _)
LibLoop(ls, i, sv, dirs, incs, st) ==
    IF i > Len(ls) \/ st.err # "" THEN st
    ELSE LET t == LibTarget(ls[i][1], ls[i][2], sv, dirs, incs) IN
         IF ~AddOk(st.commands, t.commands, t.targets)
         THEN [st EXCEPT !.err = "ConstructionError"]
         ELSE LibLoop(ls, i + 1, sv, dirs, incs,
                  [st EXCEPT
                     !.commands = Add(st.commands, t.commands, t.targets,
                                      t.depends),
                     !.f_files = Update(st.f_files, t.f_files)])

(***************************************************************************)
(* Vcs.setup, the artifact and run Targets                                 *)
(***************************************************************************)
ArtifactCommand ==
    <<T("vcs")>> \o full64
    \o <<T("-o"), name, T("-file"), T("vcs.f"), T("-parameters"),
         T("parameters.txt")>>

\* Faulty variant of ArtifactDepends: the user files are left out.
ArtifactDependsWithoutUser(ls, ufs) ==
    [i \in 1..Len(ls) |-> Marker(ls[i][1])]
    \o <<T("vcs.f"), T("parameters.txt")>>

ArtifactDepends(ls, ufs) ==
    [i \in 1..Len(ls) |-> Marker(ls[i][1])] \o ufs
    \o <<T("vcs.f"), T("parameters.txt")>>

RunCommand ==
    <<<<"./">> \o name, T("$(EXTRA_OPTIONS)")>> \o vcs_tool_options.run_options

RunTargets == <<T("run")>>

\* Faulty variant of RunDepends: targets and dependencies swapped.
RunDependsOnItself == RunTargets

RunDepends == <<name>>

(***************************************************************************)
(* Vcs.setup as a state machine                                            *)
(***************************************************************************)
\* The state after Vcs.__init__: the EDAM file list (at most n files) and the
\* design name are the inputs; the Verilator object does not exist.
VcsInit(n, names) ==
    /\ \E k \in 0..n : \E as \in [1..k -> FileAttrs] : files = FileList(as)
    /\ name \in names
    /\ pc = "start"
    /\ err = ""
    /\ incdirs = <<>>
    /\ include_files = <<>>
    /\ unused_files = <<>>
    /\ user_files = <<>>
    /\ libs = <<>>
    /\ has_sv = FALSE
    /\ commands = <<>>
    /\ default_target = <<>>
    /\ f_files = <<>>
    /\ edam_files = <<>>
    /\ tool_options = <<>>
    /\ vtoplevel = ""
    /\ hooks = {}
    /\ vpc = "none"
    /\ verr = ""
    /\ written = <<>>
    /\ args = <<>>
    /\ has_args = FALSE
    /\ tools_run = <<>>
    /\ scripts_run = <<>>
    /\ calls = <<>>

\* Every file list, one ordinary design name.
Init == VcsInit(MaxFiles, {T("design")})

\* Shorter file lists, every design name.
NamesInit == VcsInit(MaxFiles - 1, DesignNames)

\* Lines 45-58.
ExtractIncludes ==
    /\ pc = "start"
    /\ LET st == IncludeLoop(files, 1,
                     [incdirs |-> <<>>, include_files |-> <<>>,
                      unused_files |-> files])
       IN  /\ incdirs' = st.incdirs
           /\ include_files' = st.include_files
           /\ unused_files' = st.unused_files
    /\ pc' = "classified"
    /\ UNCHANGED <<files, name, err, user_files, libs, has_sv, commands,
                   default_target, f_files, edam_files, vervars>>

\* Lines 60-105.
GroupFiles ==
    /\ pc = "classified"
    /\ LET st == GroupLoop(unused_files, 1,
                     [user_files |-> <<>>, libs |-> <<>>, has_sv |-> FALSE,
                      defines |-> [bound |-> FALSE, val |-> <<>>],
                      unused_files |-> unused_files, err |-> ""])
       IN  /\ user_files' = st.user_files
           /\ libs' = st.libs
           /\ has_sv' = st.has_sv
           /\ unused_files' = st.unused_files
           /\ err' = st.err
           /\ pc' = IF st.err = "" THEN "grouped" ELSE "error"
    /\ UNCHANGED <<files, name, incdirs, include_files, commands,
                   default_target, f_files, edam_files, vervars>>

\* Lines 107-144.
AddLibraryTargets ==
    /\ pc = "grouped"
    /\ LET st == LibLoop(libs, 1, has_sv, incdirs, include_files,
                     [commands |-> <<>>, f_files |-> <<>>, err |-> ""])
       IN  /\ commands' = st.commands
           /\ f_files' = st.f_files
           /\ err' = st.err
           /\ pc' = IF st.err = "" THEN "libraries" ELSE "error"
    /\ UNCHANGED <<files, name, incdirs, include_files, unused_files,
                   user_files, libs, has_sv, default_target, edam_files,
                   vervars>>

\* Lines 146-169.
AddFinalTargets ==
    /\ pc = "libraries"
    /\ edam_files' = unused_files
    /\ f_files' = Put(f_files, T("vcs.f"),
                      <<T("-top"), T(toplevel)>> \o vcs_tool_options.vcs_options)
    /\ IF ~AddOk(commands, <<ArtifactCommand>>, <<name>>)
       THEN /\ pc' = "error"
            /\ err' = "ConstructionError"
            /\ UNCHANGED <<commands, default_target>>
       ELSE LET g == Add(commands, <<ArtifactCommand>>, <<name>>,
                         ArtifactDepends(libs, user_files))
            IN  IF ~AddOk(g, <<RunCommand>>, RunTargets)
                THEN /\ commands' = g
                     /\ pc' = "error"
                     /\ err' = "ConstructionError"
                     /\ UNCHANGED default_target
                ELSE /\ commands' = Add(g, <<RunCommand>>, RunTargets,
                                        RunDepends)
                     /\ default_target' = name
                     /\ pc' = "done"
                     /\ err' = err
    /\ UNCHANGED <<files, name, incdirs, include_files, unused_files,
                   user_files, libs, has_sv, vervars>>

Next ==
    \/ ExtractIncludes
    \/ GroupFiles
    \/ AddLibraryTargets
    \/ AddFinalTargets

Spec == Init /\ [][Next]_vars

NamesSpec == NamesInit /\ [][Next]_vars

(***************************************************************************)
(* Verilator                                                               *)
(***************************************************************************)
\* The list modes of _write_config_files.
modes == <<"sc", "cc", "lint-only">>

\* Values of the tool option "mode" tried, one of them illegal.
ModeInputs == {"sc", "cc", "lint-only", "fast"}

\* Values of the tool option "cli_parser" tried.
ParserInputs == {"managed", "raw"}

\* multiprocessing.cpu_count() on the modelled host.
cpu_count == 2

\* What _get_fileset_files returns: the source files and include directories.
src_files ==
    <<[name |-> T("core.sv"), file_type |-> "systemVerilogSource"],
      [name |-> T("tb.cpp"), file_type |-> "cppSource"],
      [name |-> T("notes.txt"), file_type |-> "user"]>>

vincdirs == <<T("rtl")>>

\* self.vlogparam of the Verilator design.
vlogparam == << <<"WIDTH", 8>> >>

\* The argument lists run_pre is called with, each with the plusarg and
\* cmdlinearg dicts parse_args derives from it.
RunArgs ==
    { [argv |-> <<>>, plusarg |-> <<>>, cmdlinearg |-> <<>>],
      [argv |-> <<T("+seed=1"), T("--trace=1")>>,
       plusarg |-> << <<"seed", 1>> >>,
       cmdlinearg |-> << <<"trace", 1>> >>] }

\* _managed_parser
ManagedParser(opts) ==
    ~HasKey(opts, "cli_parser") \/ Get(opts, "cli_parser") = "managed"

\* The default every stage applies: mode "cc" when the option is missing.
DefaultMode(opts) ==
    IF HasKey(opts, "mode") THEN opts ELSE Put(opts, "mode", "cc")

\* The names of the files of fs whose type is one of types, in order.
RECURSIVE NamesOfType(_, _)
NamesOfType(fs, types) ==
    IF fs = <<>> THEN <<>>
    ELSE (IF Head(fs).file_type \in types THEN <<Head(fs).name>> ELSE <<>>)
         \o NamesOfType(Tail(fs), types)

\* The types whose files are listed in <name>.vc as sources.
VerilogTypes == {"systemVerilogSource", "verilogSource"}

\* The types whose files follow --exe.
CTypes == {"cppSource", "systemCSource", "cSource"}

\* The lines of <name>.vc written before the mode is examined.
VcHead == <<T("--Mdir .")>>

\* The lines of <name>.vc written once the mode is found legal (the tool
\* option "libs" is not among the inputs, so there is no -LDFLAGS line).
VcBody(mode) ==
    <<<<"--", mode>>>>
    \o Concat([j \in 1..Len(vincdirs) |->
                 <<<<"+incdir+">> \o vincdirs[j],
                   <<"-CFLAGS -I">> \o vincdirs[j]>>])
    \o NamesOfType(src_files, VerilogTypes)
    \o <<<<"--top-module ", vtoplevel>>, T("--exe")>>
    \o NamesOfType(src_files, CTypes)
    \o [j \in 1..Len(vlogparam) |->
          <<"-G", vlogparam[j][1], "=", ParamValueStr(vlogparam[j][2])>>]
    \o [j \in 1..Len(vlogdefine) |->
          <<"-D", vlogdefine[j][1], "=", ParamValueStr(vlogdefine[j][2])>>]

verilator_file == name \o <<".vc">>

\* The three files of a successful _write_config_files.
ConfigFiles(mode) ==
    <<<<verilator_file, VcHead \o VcBody(mode)>>,
      <<T("Makefile"), <<T("MAKEFILE_TEMPLATE")>>>>,
      <<T("config.mk"),
        <<<<"TOP_MODULE := ", vtoplevel>>,
          <<"VC_FILE := ">> \o verilator_file>>>>>>

\* The files left behind when the mode is found illegal: the with-block
\* has opened <name>.vc for writing and written its first line.
IllegalModeFiles == <<<<verilator_file, VcHead>>>>

\* The state after Verilator.__init__.
VerilatorInit ==
    /\ \E m \in ModeInputs \cup {""}, p \in ParserInputs \cup {""} :
          tool_options =
              (IF m = "" THEN <<>> ELSE <<<<"mode", m>>>>)
              \o (IF p = "" THEN <<>> ELSE <<<<"cli_parser", p>>>>)
    /\ vtoplevel \in {"", "top"}
    /\ hooks \in {{}, {"pre_run"}}
    /\ name = T("design")
    /\ vpc = "new"
    /\ verr = ""
    /\ written = <<>>
    /\ args = <<>>
    /\ has_args = FALSE
    /\ tools_run = <<>>
    /\ scripts_run = <<>>
    /\ calls = <<>>
    /\ files = <<>>
    /\ pc = "none"
    /\ err = ""
    /\ incdirs = <<>>
    /\ include_files = <<>>
    /\ unused_files = <<>>
    /\ user_files = <<>>
    /\ libs = <<>>
    /\ has_sv = FALSE
    /\ commands = <<>>
    /\ default_target = <<>>
    /\ f_files = <<>>
    /\ edam_files = <<>>

\* configure_main and _write_config_files, lines 76-144.
ConfigureMain ==
    /\ vpc = "new"
    /\ calls = <<>>
    /\ IF vtoplevel = ""
       THEN /\ vpc' = "failed"
            /\ verr' = "RuntimeError: miss a mandatory parameter"
            /\ UNCHANGED <<written, tool_options>>
       ELSE LET opts == DefaultMode(tool_options)
                mode == Get(opts, "mode")
            IN  /\ tool_options' = opts
                /\ IF \E j \in 1..Len(modes) : modes[j] = mode
                   THEN /\ written' = Update(written, ConfigFiles(mode))
                        /\ vpc' = "configured"
                        /\ verr' = ""
                   ELSE /\ written' = Update(written, IllegalModeFiles)
                        /\ vpc' = "failed"
                        /\ verr' = "RuntimeError: Illegal verilator mode"
    /\ UNCHANGED <<vtoplevel, hooks, args, has_args, tools_run, scripts_run,
                   calls, vcsvars>>

\* A stage is called on an object that names a toplevel and whose
\* configuration, if it ran, succeeded.
CanCall ==
    /\ vpc \in {"new", "configured"}
    /\ vtoplevel # ""
    /\ Len(calls) < MaxCalls

\* build_main, lines 146-158.
BuildMain ==
    /\ CanCall
    /\ LET opts == DefaultMode(tool_options)
           jobs == <<T("-j"), T(DecStr[cpu_count * 2])>>
           goal == IF Get(opts, "mode") = "lint-only"
                   THEN <<<<"V", vtoplevel, ".mk">>>> ELSE <<>>
       IN  /\ tool_options' = opts
           /\ tools_run' = Append(tools_run, <<T("make"), jobs \o goal>>)
    /\ calls' = Append(calls, "build_main")
    /\ verr' = ""
    /\ UNCHANGED <<vtoplevel, hooks, vpc, written, args, has_args,
                   scripts_run, vcsvars>>

\* The argument list run_pre assembles under the managed parser.
ManagedArgs(a) ==
    [j \in 1..Len(a.plusarg) |->
        <<"+", a.plusarg[j][1], "=", ParamValueStr(a.plusarg[j][2])>>]
    \o [j \in 1..Len(a.cmdlinearg) |->
        <<"--", a.cmdlinearg[j][1], "=", ParamValueStr(a.cmdlinearg[j][2])>>]

\* Faulty variant of RunPreSkips: no early return.
RunPreNeverSkips(opts) == FALSE

\* Whether run_pre returns before assembling anything.
RunPreSkips(opts) == Get(opts, "mode") = "lint-only"

\* run_pre(args), lines 160-178.
RunPre ==
    /\ CanCall
    /\ \E a \in RunArgs :
         LET opts == DefaultMode(tool_options) IN
         /\ tool_options' = opts
         /\ IF RunPreSkips(opts)
            THEN UNCHANGED <<args, has_args, scripts_run>>
            ELSE /\ args' = IF ManagedParser(opts) THEN ManagedArgs(a)
                            ELSE a.argv
                 /\ has_args' = TRUE
                 /\ scripts_run' = IF "pre_run" \in hooks
                                   THEN Append(scripts_run, "pre_run")
                                   ELSE scripts_run
    /\ calls' = Append(calls, "run_pre")
    /\ verr' = ""
    /\ UNCHANGED <<vtoplevel, hooks, vpc, written, tools_run, vcsvars>>

\* Whether run_main returns before running anything.
RunMainSkips(opts) == Get(opts, "mode") = "lint-only"

\* run_main, lines 180-184.
RunMain ==
    /\ CanCall
    /\ IF ~HasKey(tool_options, "mode")
       THEN /\ verr' = "KeyError"
            /\ UNCHANGED tools_run
       ELSE IF RunMainSkips(tool_options)
       THEN /\ verr' = ""
            /\ UNCHANGED tools_run
       ELSE IF ~has_args
       THEN /\ verr' = "AttributeError"
            /\ UNCHANGED tools_run
       ELSE /\ verr' = ""
            /\ tools_run' = Append(tools_run, <<<<"./V", vtoplevel>>, args>>)
    /\ calls' = Append(calls, "run_main")
    /\ UNCHANGED <<tool_options, vtoplevel, hooks, vpc, written, args,
                   has_args, scripts_run, vcsvars>>

VerilatorNext ==
    \/ ConfigureMain
    \/ BuildMain
    \/ RunPre
    \/ RunMain

VerilatorSpec == VerilatorInit /\ [][VerilatorNext]_vars

(***************************************************************************)
(* Reading the build graph back                                            *)
(***************************************************************************)
Done == pc = "done"

\* The Targets of the graph that analyse a library: those that start with
\* the directory-creation command.
LibTargetIdx == {i \in 1..Len(commands) : commands[i].commands[1][1] = T("mkdir")}

\* The library a library Target creates.
LibOf(t) == t.commands[1][3][1]

\* The analysis commands of a library Target, in order.
AnalysisOf(t) == Tail(t.commands)

\* The pieces of one analysis command.
KindOf(c) == c[1][1]
FlagAt(c) == CHOOSE j \in 1..Len(c) : c[j] = T("-f")
OptFileOf(c) == c[FlagAt(c) + 1]
FilesOf(c) == SubSeq(c, FlagAt(c) + 4, Len(c))

\* Every (Target, command) pair of the graph that analyses file name n.
GroupsOf(n) ==
    {<<i, k>> \in LibTargetIdx \X (1..Len(files)) :
        /\ k <= Len(AnalysisOf(commands[i]))
        /\ n \in Range(FilesOf(AnalysisOf(commands[i])[k]))}

\* The number of file arguments over all analysis commands.
RECURSIVE SumLen(_)
SumLen(ss) == IF ss = <<>> THEN 0 ELSE Len(Head(ss)) + SumLen(Tail(ss))

GroupedCount ==
    SumLen([i \in 1..Len(commands) |->
              IF i \in LibTargetIdx
              THEN Concat([k \in 1..Len(AnalysisOf(commands[i])) |->
                              FilesOf(AnalysisOf(commands[i])[k])])
              ELSE <<>>])

B2N(b) == IF b THEN 1 ELSE 0

(***************************************************************************)
(* C2                                                                      *)
(***************************************************************************)
\* C2 as stated: after setup every input file is in exactly one of
\* include_files, one command group, user_files and the leftover list
\* edam["files"], and the four sizes add up to the size of the input.
C2_FourBuckets ==
    Done =>
      /\ \A i \in 1..Len(files) :
            B2N(files[i].name \in Range(include_files))
            + Cardinality(GroupsOf(files[i].name))
            + B2N(files[i].name \in Range(user_files))
            + B2N(files[i] \in Range(edam_files)) = 1
      /\ Len(files) = Len(include_files) + GroupedCount + Len(user_files)
                      + Len(edam_files)

\* C2 amended: after setup every input file is in exactly one of three
\* buckets, include_files, one command group of one library, and the
\* leftover list edam["files"], whose sizes add up to the size of the input;
\* user_files is no bucket of its own: it names exactly the files of type
\* "user", every one of which is also left over.
C2_ThreeBuckets ==
    Done =>
      /\ \A i \in 1..Len(files) :
            B2N(files[i].name \in Range(include_files))
            + Cardinality(GroupsOf(files[i].name))
            + B2N(files[i] \in Range(edam_files)) = 1
      /\ Len(files) = Len(include_files) + GroupedCount + Len(edam_files)
      /\ Range(user_files) =
            {files[i].name : i \in {j \in 1..Len(files) :
                                      files[j].file_type = "user"}}
      /\ \A i \in 1..Len(files) :
            files[i].file_type = "user" => files[i] \in Range(edam_files)

\* A finished setup with an include file, a grouped file and a user file.
C2_Witness ==
    /\ Done
    /\ include_files # <<>>
    /\ GroupedCount > 0
    /\ user_files # <<>>

(***************************************************************************)
(* C3                                                                      *)
(***************************************************************************)
\* C3: setup completes for every file list, and every simulation-tagged VHDL
\* file is analysed by the one vhdlan command of its library.
C3_VhdlKeyedByLibrary ==
    /\ err # "UnboundLocalError"
    /\ Done =>
         /\ \A i \in LibTargetIdx :
               Cardinality({k \in 1..Len(AnalysisOf(commands[i])) :
                   KindOf(AnalysisOf(commands[i])[k]) = "vhdlan"}) <= 1
         /\ \A j \in 1..Len(files) :
               (files[j].file_type = "vhdlSource" /\ IsSim(files[j])) =>
                  \E g \in GroupsOf(files[j].name) :
                     /\ LibOf(commands[g[1]]) = files[j].logical_name
                     /\ KindOf(AnalysisOf(commands[g[1]])[g[2]]) = "vhdlan"

(***************************************************************************)
(* C4                                                                      *)
(***************************************************************************)
\* Whether the input holds a Verilog-family file that is compiled into
\* library l.
VlogGroupedInto(l) ==
    \E j \in 1..Len(files) :
       /\ IsVlogFamily(files[j].file_type)
       /\ IsSim(files[j])
       /\ ~files[j].is_include_file
       /\ files[j].logical_name = l

\* C4: after setup a library Target depends on every include file if a
\* Verilog-family file was grouped into the library, and on no include file
\* otherwise.
C4_IncludeDependency ==
    Done =>
      \A i \in LibTargetIdx :
         IF VlogGroupedInto(LibOf(commands[i]))
         THEN Range(include_files) \subseteq Range(commands[i].depends)
         ELSE Range(include_files) \cap Range(commands[i].depends) = {}

\* A finished setup with an include file, a library with a Verilog file and
\* a library of VHDL files only.
C4_Witness ==
    /\ Done
    /\ include_files # <<>>
    /\ \E i \in LibTargetIdx : VlogGroupedInto(LibOf(commands[i]))
    /\ \E i \in LibTargetIdx : ~VlogGroupedInto(LibOf(commands[i]))

(***************************************************************************)
(* C5                                                                      *)
(***************************************************************************)
\* C5: after setup the Target whose output is the design name depends on
\* exactly the marker of every library Target, the user files, and the
\* option files vcs.f and parameters.txt.
C5_ArtifactDependencies ==
    Done =>
      /\ Cardinality({i \in 1..Len(commands) : commands[i].targets = <<name>>}) = 1
      /\ \A i \in 1..Len(commands) :
            commands[i].targets = <<name>> =>
               Range(commands[i].depends) =
                  {<<LibOf(commands[j]), "/AN.DB">> : j \in LibTargetIdx}
                  \cup Range(user_files)
                  \cup {T("vcs.f"), T("parameters.txt")}
      /\ \A j \in LibTargetIdx :
            commands[j].targets = <<<<LibOf(commands[j]), "/AN.DB">>>>

\* A finished setup with two library Targets and a user file.
C5_Witness ==
    /\ Done
    /\ Cardinality(LibTargetIdx) = 2
    /\ user_files # <<>>

(***************************************************************************)
(* C6                                                                      *)
(***************************************************************************)
\* The entries (cmd, fname, defines) setup recorded for library l.
EntriesOf(l) == Get(libs, l)

\* The bucket key (command kind, serialized defines) of file name n in l.
KeyOfFile(l, n) ==
    LET es == EntriesOf(l)
        j  == CHOOSE j \in 1..Len(es) : es[j][2] = n
    IN  <<es[j][1], es[j][3]>>

\* The position of the first entry of l with bucket key k.
FirstOf(l, k) ==
    LET es == EntriesOf(l)
    IN  CHOOSE j \in 1..Len(es) :
           /\ <<es[j][1], es[j][3]>> = k
           /\ \A h \in 1..(j - 1) : <<es[h][1], es[h][3]>> # k

\* C6: after setup the analysis commands of a library are its distinct
\* (kind, defines) buckets, one command per bucket, in the order in which the
\* buckets' first files occur; the k-th command has the bucket's kind and
\* files and reads option file <library>.<k>.f, which exists and is a
\* dependency of the library Target.
C6_BucketNumbering ==
    Done =>
      \A i \in LibTargetIdx :
         LET l  == LibOf(commands[i])
             cs == AnalysisOf(commands[i])
             es == EntriesOf(l)
             ks == {<<es[j][1], es[j][3]>> : j \in 1..Len(es)}
         IN  /\ Len(cs) = Cardinality(ks)
             /\ \A k \in 1..Len(cs) :
                   LET key == KeyOfFile(l, FilesOf(cs[k])[1]) IN
                   /\ KindOf(cs[k]) = key[1]
                   /\ Range(FilesOf(cs[k])) =
                         {es[j][2] : j \in {h \in 1..Len(es) :
                                              <<es[h][1], es[h][3]>> = key}}
                   /\ OptFileOf(cs[k]) = <<l, ".", DecStr[k], ".f">>
                   /\ HasKey(f_files, OptFileOf(cs[k]))
                   /\ OptFileOf(cs[k]) \in Range(commands[i].depends)
                   /\ \A h \in 1..(k - 1) :
                         FirstOf(l, KeyOfFile(l, FilesOf(cs[h])[1]))
                            < FirstOf(l, key)

\* A finished setup with a library of three buckets.
C6_Witness ==
    /\ Done
    /\ \E i \in LibTargetIdx : Len(AnalysisOf(commands[i])) >= 3

(***************************************************************************)
(* C7                                                                      *)
(***************************************************************************)
\* C7: after setup a file without the simulation tag is in neither
\* include_files nor any command group, and is, unchanged, in edam["files"].
C7_UntaggedLeftOver ==
    Done =>
      \A i \in 1..Len(files) :
         ~IsSim(files[i]) =>
            /\ files[i].name \notin Range(include_files)
            /\ GroupsOf(files[i].name) = {}
            /\ files[i] \in Range(edam_files)

\* A finished setup with an untagged Verilog-family file beside a grouped
\* file.
C7_Witness ==
    /\ Done
    /\ GroupedCount > 0
    /\ \E i \in 1..Len(files) :
          ~IsSim(files[i]) /\ IsVlogFamily(files[i].file_type)

(***************************************************************************)
(* C8                                                                      *)
(***************************************************************************)
\* The outputs of the graph are declared once each.
OutputsDistinct ==
    \A i, j \in 1..Len(commands) :
       i # j => Range(commands[i].targets) \cap Range(commands[j].targets) = {}

\* The graph declares the marker of every library, the design name and run.
OutputsComplete ==
    /\ \A k \in 1..Len(libs) : Declared(commands, <<libs[k][1], "/AN.DB">>)
    /\ Declared(commands, name)
    /\ Declared(commands, T("run"))
    /\ Len(commands) = Len(libs) + 2

RunNeverDependency ==
    \A i \in 1..Len(commands) : T("run") \notin Range(commands[i].depends)

NameIsFree ==
    /\ name # T("run")
    /\ \A k \in 1..Len(libs) : name # <<libs[k][1], "/AN.DB">>

VlogOptions ==
    UNION {{Get(f_files, OptFileOf(AnalysisOf(commands[i])[k])) :
              k \in {h \in 1..Len(AnalysisOf(commands[i])) :
                       KindOf(AnalysisOf(commands[i])[h]) = "vlogan"}}
           : i \in LibTargetIdx}

HasSverilog(options) == T("-sverilog") \in Range(options)

\* C9 as stated: -sverilog is in every vlogan option file if the input holds
\* a SystemVerilog file, and in none otherwise.
C9_SverilogIffInInput ==
    Done =>
      \A o \in VlogOptions :
         HasSverilog(o) <=>
            \E j \in 1..Len(files) : files[j].file_type = "systemVerilogSource"

\* C9 amended: -sverilog (as emitted by setup, ahead of the user's
\* vlogan_options) is in every vlogan option file if a SystemVerilog file is
\* among the files that the include pass left in the pool, whatever its tags
\* and position, and in none otherwise; a SystemVerilog include file does not
\* count.
C9_SverilogIffInPool ==
    Done =>
      \A o \in VlogOptions :
         HasSverilog(o) <=>
            \E j \in 1..Len(files) :
               /\ files[j].file_type = "systemVerilogSource"
               /\ ~(IsSim(files[j]) /\ files[j].is_include_file)

\* A finished setup with two vlogan buckets that both carry -sverilog
\* although the first file is not SystemVerilog.
C9_Witness ==
    /\ Done
    /\ Cardinality({<<i, k>> \in LibTargetIdx \X (1..Len(files)) :
          /\ k <= Len(AnalysisOf(commands[i]))
          /\ KindOf(AnalysisOf(commands[i])[k]) = "vlogan"}) >= 2
    /\ \A o \in VlogOptions : HasSverilog(o)
    /\ files[1].file_type # "systemVerilogSource"

(***************************************************************************)
(* C1                                                                      *)
(***************************************************************************)
\* C1: when configure_main fails on an illegal mode, no file has been
\* written to the working directory.
C1_NoFileOnIllegalMode ==
    (vpc = "failed" /\ verr = "RuntimeError: Illegal verilator mode")
       => written = <<>>

(***************************************************************************)
(* C10                                                                     *)
(***************************************************************************)
ModeIs(m) == HasKey(tool_options, "mode") /\ Get(tool_options, "mode") = m

Executable == <<"./V", vtoplevel>>

\* C10: in mode lint-only no argument list is assembled, no pre_run hook
\* runs, the executable is never run and every make call asks for the goal
\* V<toplevel>.mk alone; in modes cc and sc the executable runs only once
\* run_pre has set the argument list, and make is asked for no goal.
C10_LintOnlyShortCircuit ==
    /\ ModeIs("lint-only") =>
         /\ ~has_args
         /\ scripts_run = <<>>
         /\ \A j \in 1..Len(tools_run) :
               /\ tools_run[j][1] = T("make")
               /\ Len(tools_run[j][2]) = 3
               /\ tools_run[j][2][3] = <<"V", vtoplevel, ".mk">>
    /\ (ModeIs("cc") \/ ModeIs("sc")) =>
         \A j \in 1..Len(tools_run) :
            /\ tools_run[j][1] = Executable =>
                  has_args /\ "run_pre" \in Range(calls)
            /\ tools_run[j][1] = T("make") => Len(tools_run[j][2]) = 2

\* A configured lint-only design on which all three stages have been called.
C10_Witness ==
    /\ ModeIs("lint-only")
    /\ vpc = "configured"
    /\ calls = <<"build_main", "run_pre", "run_main">>

====
